---- MODULE Spec2Model ----
(***************************************************************************)
(* The chat client of the RAG chatbot frontend: App.jsx (session           *)
(* controller and localStorage mirror), ChatWindow.jsx (handleSend and its *)
(* SSE read loop) and api.js (sendChat, fetchHistory, createSession,       *)
(* deleteSession).                                                         *)
(*                                                                         *)
(* Text is a sequence of one-character strings.  One action is one         *)
(* synchronous segment of a handler (from one await to the next) together  *)
(* with the React render and effects that it schedules.                    *)
(***************************************************************************)
EXTENDS Integers, Sequences, FiniteSets, TLC

(***************************************************************************)
(* Bounds of the model.                                                    *)
(***************************************************************************)
MaxSends == 2
MaxSwitches == 2
MaxDeletes == 1

(***************************************************************************)
(* Text helpers.                                                           *)
(***************************************************************************)
NL == "\n"
Q == "\""

Undefined == <<"undefined">>
Null == <<"null">>

IsPrefix(p, s) == Len(p) <= Len(s) /\ SubSeq(s, 1, Len(p)) = p

\* String.prototype.trim: drops leading and trailing white space.
IsSpace(c) == c \in {" ", NL}

RECURSIVE TrimStart(_)
TrimStart(s) ==
    IF s # <<>> /\ IsSpace(Head(s)) THEN TrimStart(Tail(s)) ELSE s

RECURSIVE TrimEnd(_)
TrimEnd(s) ==
    IF s # <<>> /\ IsSpace(s[Len(s)]) THEN TrimEnd(SubSeq(s, 1, Len(s) - 1)) ELSE s

Trim(s) == TrimEnd(TrimStart(s))

\* String.prototype.split('\n'): the segments between newlines, in order
\* (n newlines give n + 1 segments, empty ones included).
SplitLines(s) ==
    LET nls == {i \in 1..Len(s) : s[i] = NL}
        \* the position of the j-th newline; 0 and Len(s) + 1 bracket the text
        Nth(j) == IF j = 0 THEN 0
                  ELSE IF j > Cardinality(nls) THEN Len(s) + 1
                  ELSE CHOOSE i \in nls : Cardinality({x \in nls : x <= i}) = j
    IN [j \in 1..(Cardinality(nls) + 1) |-> SubSeq(s, Nth(j - 1) + 1, Nth(j) - 1)]

\* line.startsWith('data: ') and line.slice(6)
DataPrefix == <<"d", "a", "t", "a", ":", " ">>
StartsWithData(line) == IsPrefix(DataPrefix, line)
Slice6(line) == SubSeq(line, 7, Len(line))

(***************************************************************************)
(* JSON texts of the frames.  A payload is the parsed value as the read    *)
(* loop sees it: kind "object" with the members done, token and sources    *)
(* (Undefined when the member is absent), or kind "null" (property access  *)
(* on it throws).                                                          *)
(***************************************************************************)
Obj(d, t, s) == [kind |-> "object", done |-> d, token |-> t, sources |-> s]
TokenP(t) == Obj(FALSE, t, Undefined)
DoneP(s) == Obj(TRUE, Undefined, s)
DoneNoSourcesP == Obj(TRUE, Undefined, Undefined)
DoneTokenP(t, s) == Obj(TRUE, t, s)
OtherP == Obj(FALSE, Undefined, Undefined)
NullP == [kind |-> "null", done |-> FALSE, token |-> Undefined, sources |-> Undefined]

Str(s) == <<Q>> \o s \o <<Q>>
KeyToken == <<Q, "t", "o", "k", "e", "n", Q, ":">>
KeyDone == <<Q, "d", "o", "n", "e", Q, ":", "t", "r", "u", "e">>
KeySources == <<Q, "s", "o", "u", "r", "c", "e", "s", Q, ":">>

RECURSIVE StrList(_)
StrList(l) ==
    IF l = <<>> THEN <<>>
    ELSE IF Len(l) = 1 THEN Str(<<Head(l)>>)
    ELSE Str(<<Head(l)>>) \o <<",">> \o StrList(Tail(l))

\* The text the backend writes for a payload (JSON.stringify on its side).
Stringify(p) ==
    IF p.kind = "null" THEN <<"n", "u", "l", "l">>
    ELSE IF p = OtherP THEN <<"{", Q, "x", Q, ":", "1", "}">>
    ELSE <<"{">>
         \o (IF p.done THEN KeyDone ELSE <<>>)
         \o (IF p.done /\ p.token # Undefined THEN <<",">> ELSE <<>>)
         \o (IF p.token # Undefined THEN KeyToken \o Str(p.token) ELSE <<>>)
         \o (IF p.sources # Undefined
                THEN <<",">> \o KeySources \o <<"[">> \o StrList(p.sources) \o <<"]">>
                ELSE <<>>)
         \o <<"}">>

Tokens == {<<"a">>, <<"b">>, <<"c">>}
SourceLists == {<<>>, <<"d">>}

\* The JSON values the model's backend can put in a frame.
Payloads ==
    {TokenP(t) : t \in Tokens}
    \cup {DoneP(s) : s \in SourceLists}
    \cup {DoneTokenP(t, s) : t \in Tokens, s \in SourceLists}
    \cup {DoneNoSourcesP, OtherP, NullP}

ParseError == [kind |-> "error", done |-> FALSE, token |-> Undefined, sources |-> Undefined]

\* JSON.parse on the texts that occur: the value whose text this is, and a
\* SyntaxError (ParseError) for every other text, such as a cut-off frame.
JSONParse(text) ==
    IF \E p \in Payloads : Stringify(p) = text
    THEN CHOOSE p \in Payloads : Stringify(p) = text
    ELSE ParseError

(***************************************************************************)
(* Messages.  A user message has role and content only; an assistant       *)
(* message also has sources (Null or a list) and isTyping.                 *)
(***************************************************************************)
UserMsg(text) == [role |-> "user", content |-> text]
BotMsg(text, srcs, typing) ==
    [role |-> "assistant", content |-> text, sources |-> srcs, isTyping |-> typing]

botPlaceholder == BotMsg(<<>>, Null, TRUE)

\* The fixed text of the catch branch, abbreviated.
ErrorText == <<"E", "r", "r">>
ErrorMsg == BotMsg(ErrorText, <<>>, FALSE)

IsTyping(m) == "isTyping" \in DOMAIN m /\ m.isTyping = TRUE
NoTyping(log) == \A i \in 1..Len(log) : ~IsTyping(log[i])

\* updated = [...prev]; updated[updated.length - 1] = msg; return updated.
\* On an empty array the assignment sets the property "-1", no element.
ReplaceLast(prev, msg) ==
    IF prev = <<>> THEN prev ELSE [prev EXCEPT ![Len(prev)] = msg]

(***************************************************************************)
(* The frame loop of handleSend over the lines of one chunk.  The state is *)
(* the closure's botText and sources and the queue of updateMessages calls *)
(* made so far; each call keeps its payload's done flag and, for an        *)
(* updater that React runs at call time, the values of botText and sources *)
(* at that moment.                                                         *)
(***************************************************************************)
Call(p, bt, src) == [done |-> p.done, token |-> p.token, botText |-> bt, sources |-> src]

\* payload.sources || []
\* sources = payload.sources, without the fallback.
SourcesAsSent(p) == IF p.sources = Undefined THEN Null ELSE p.sources

SourcesOrEmpty(p) == IF p.sources \in {Undefined, Null} THEN <<>> ELSE p.sources

StepLine(st, line) ==
    IF ~StartsWithData(line) THEN st
    ELSE LET p == JSONParse(Slice6(line)) IN
         IF p.kind # "object" THEN st
         ELSE LET src == IF p.done THEN SourcesOrEmpty(p) ELSE st.sources
                  bt == IF ~p.done /\ p.token # Undefined
                           THEN st.botText \o p.token ELSE st.botText
              IN [botText |-> bt, sources |-> src,
                  calls |-> Append(st.calls, Call(p, bt, src))]

RECURSIVE StepLines(_, _)
StepLines(st, lines) ==
    IF lines = <<>> THEN st ELSE StepLines(StepLine(st, Head(lines)), Tail(lines))

\* for (const line of chunk.split('\n')) { ... }
ProcessChunk(botText, sources, chunk) ==
    StepLines([botText |-> botText, sources |-> sources, calls |-> <<>>],
              SplitLines(chunk))

\* The message an updater of the frame loop builds when it runs: it reads
\* botText and sources as they are at that time.
UpdaterMsg(done, botText, sources) ==
    BotMsg(botText, IF done THEN sources ELSE Null, ~done)

\* The messages built by the updaters queued in one synchronous segment.
\* React runs the first updater at call time when the fiber has no pending
\* work (eager) and the others in the render after the loop.
Emitted(st, eager) ==
    [i \in 1..Len(st.calls) |->
        IF i = 1 /\ eager
        THEN UpdaterMsg(st.calls[i].done, st.calls[i].botText, st.calls[i].sources)
        ELSE UpdaterMsg(st.calls[i].done, st.botText, st.sources)]

RECURSIVE ApplyAll(_, _)
ApplyAll(prev, msgs) ==
    IF msgs = <<>> THEN prev ELSE ApplyAll(ReplaceLast(prev, Head(msgs)), Tail(msgs))

(***************************************************************************)
(* What the backend can answer.                                            *)
(***************************************************************************)
Sessions == {"A", "B"}
NewIds == {"N"}
NoSession == "none"

\* One physical line of a response body of POST /chat: a frame carrying
\* the JSON text of payload p, a data line whose JSON text is followed by a
\* stray character, or a line without the data prefix (an SSE comment).
Frame(p) == [kind |-> "frame", p |-> p]
BadJson(p) == [kind |-> "badjson", p |-> p]
Comment == [kind |-> "comment", p |-> NullP]

LineText(l) ==
    IF l.kind = "frame" THEN DataPrefix \o Stringify(l.p)
    ELSE IF l.kind = "badjson" THEN (DataPrefix \o Stringify(l.p)) \o <<"x">>
    ELSE <<":", "k">>

\* The body text of a response: every line is followed by a blank line.
RECURSIVE Wire(_)
Wire(script) ==
    IF script = <<>> THEN <<>>
    ELSE (LineText(Head(script)) \o <<NL, NL>>) \o Wire(Tail(script))

TokA == Frame(TokenP(<<"a">>))
TokB == Frame(TokenP(<<"b">>))
TokC == Frame(TokenP(<<"c">>))
DoneD == Frame(DoneP(<<"d">>))

\* Response bodies of POST /chat in the controller specification.
CtlScripts == {<<TokA, DoneD>>}

\* Response bodies of POST /chat in the window specification: a complete
\* one and one that ends without a done frame.
WinScripts == {<<TokA, DoneD>>, <<TokA>>}

\* Response bodies of POST /chat in the stream specification.
StreamScripts ==
    {<<>>,
     <<TokA, TokB, DoneD>>,
     <<TokA, TokB, TokC>>,
     <<TokA, BadJson(TokenP(<<"b">>)), TokC, DoneD>>,
     <<TokA, Comment, DoneD>>,
     <<TokA, DoneD, TokB>>,
     <<DoneD, Frame(OtherP)>>,
     <<TokA, Frame(NullP), Frame(DoneNoSourcesP)>>,
     <<Frame(DoneTokenP(<<"b">>, <<>>))>>}

\* GET /history/{id}: {messages: [{role, content}, ...]}
Histories ==
    {<<>>,
     <<[role |-> "user", content |-> <<"q">>],
       [role |-> "assistant", content |-> <<"r">>]>>}

\* A history taken as the backend sends it.
RawHistory(h) == h

\* data.messages.map(m => ({role, content, sources: null, isTyping: false}))
MapHistory(h) ==
    [i \in 1..Len(h) |->
        [role |-> h[i].role, content |-> h[i].content, sources |-> Null, isTyping |-> FALSE]]

\* What the user can type.
Inputs == {<<" ">>, <<" ", "h", NL>>}

(***************************************************************************)
(* localStorage.  A key holds Absent or a text; the text of activeMessages *)
(* is the JSON of a log, or something JSON.parse rejects.                  *)
(***************************************************************************)
Absent == <<"absent">>
AbsentId == "absent"
Garbage == <<"garbage">>

\* JSON.stringify(activeMessages): members that are undefined are left
\* out, null members are kept, so each message keeps its shape.
StorageStringify(log) == <<"json", log>>

\* A state initializer that ignores the saved log.
ParseNothing(item) == <<>>

\* JSON.parse(localStorage.getItem('activeMessages') || '[]') ... catch => []
StorageParse(item) ==
    IF item = Absent THEN <<>>
    ELSE IF item[1] = "json" THEN item[2]
    ELSE <<>>

(***************************************************************************)
(* State.                                                                  *)
(***************************************************************************)
VARIABLES
    activeId,        \* App: the active session id, or NoSession
    activeMessages,  \* App: the log handed to ChatWindow as initialMessages
    lsId,            \* localStorage activeSessionId
    lsMsgs,          \* localStorage activeMessages
    cur,             \* the mounted ChatWindow instance, 0 when none
    win,             \* ChatWindow instances: sessionId, messages, loading
    task,            \* the activation of handleSend of each instance
    fetches,         \* fetchHistory promises not yet settled
    nSends,          \* sends dispatched so far
    nSwitches,       \* session switches so far
    pending,         \* createSession and deleteSession promises not yet settled,
                     \* each with the activeId its handler holds and a number
    nDeletes,        \* deletes started so far
    sessions,        \* App: the session list the sidebar shows
    io               \* what the last step did towards the user and the backend

vars == <<activeId, activeMessages, lsId, lsMsgs, cur, win, task, fetches,
          nSends, nSwitches, pending, nDeletes, sessions, io>>

\* io.send, io.text: whether the step was a call of handleSend, what it did
\* ("noop" or "sent") and the text of the input box;
\* io.refresh: the step called refreshSessions (onSessionUpdated);
\* io.rejected: the promise of the handler of this step rejected;
\* io.resp: the backend response this step handled;
\* io.loaded: the step was a page load, and what it found in localStorage.
NoResp == [kind |-> "none", sid |-> NoSession, ok |-> FALSE, h |-> <<>>]
Resp(kind, sid, ok, h) == [kind |-> kind, sid |-> sid, ok |-> ok, h |-> h]
NoLoad == [id |-> "none", msgs |-> <<>>]
IoNone == [send |-> "none", text |-> <<>>, refresh |-> FALSE, rejected |-> FALSE,
           resp |-> NoResp, loaded |-> NoLoad]

\* io is recorded in the stream and the session specification; in the
\* controller specification it stays IoOff.
IoOff == [IoNone EXCEPT !.send = "off"]
Note(r) == IF io = IoOff THEN io ELSE r

MaxWin == MaxSwitches + 1
Wins == 1..MaxWin

DeadWin == [sessionId |-> NoSession, messages |-> <<>>, loading |-> FALSE,
            live |-> "none", lanes |-> FALSE]
NewWin(sid, log) == [sessionId |-> sid, messages |-> log, loading |-> FALSE,
                     live |-> "mounted", lanes |-> FALSE]

\* wire is the text of the response body, off the number of characters
\* the reader has delivered so far.
IdleTask == [pc |-> "idle", sessionId |-> NoSession, base |-> <<>>, text |-> <<>>,
             wire |-> <<>>, off |-> 0, botText |-> <<>>, sources |-> Null]

InFlight(w) == task[w].pc \in {"awaitChat", "reading"}

(***************************************************************************)
(* Initial state: the first render of App and its mount effects, over the  *)
(* contents localStorage can have at page load.                            *)
(***************************************************************************)
SavedLog == <<UserMsg(<<"q">>), BotMsg(<<"r">>, <<"d">>, FALSE)>>

PersistedStates ==
    {[id |-> AbsentId, msgs |-> Absent],
     [id |-> "A", msgs |-> Garbage],
     [id |-> "A", msgs |-> StorageStringify(SavedLog)]}

\* localStorage.getItem('activeSessionId') || null
LoadId(id) == IF id = AbsentId THEN NoSession ELSE id

\* The state of a freshly loaded page that finds the pair saved in
\* localStorage: the state initializers (App.jsx 22-30), the first render,
\* the persist effects (33-41) and the startup fetch (45-60).
Boot(saved) ==
    LET id == LoadId(saved.id)
        log == StorageParse(saved.msgs)
    IN [activeId |-> id,
        activeMessages |-> log,
        lsId |-> IF id = NoSession THEN AbsentId ELSE id,
        lsMsgs |-> StorageStringify(log),
        cur |-> IF id = NoSession THEN 0 ELSE 1,
        win |-> [w \in Wins |-> IF w = 1 /\ id # NoSession THEN NewWin(id, log)
                                ELSE DeadWin],
        task |-> [w \in Wins |-> IdleTask],
        fetches |-> IF id = NoSession THEN {} ELSE {[sid |-> id, kind |-> "startup"]}]

InitFrom(saved) ==
    LET b == Boot(saved) IN
        /\ activeId = b.activeId
        /\ activeMessages = b.activeMessages
        /\ lsId = b.lsId
        /\ lsMsgs = b.lsMsgs
        /\ cur = b.cur
        /\ win = b.win
        /\ task = b.task
        /\ fetches = b.fetches
        /\ pending = {}
        /\ sessions = <<>>

Init ==
    \E saved \in PersistedStates :
        /\ InitFrom(saved)
        /\ nSends = 0
        /\ nSwitches = 0
        /\ nDeletes = 0
        /\ io = IoOff

(***************************************************************************)
(* React plumbing shared by the actions.                                   *)
(***************************************************************************)
\* The effect of ChatWindow on [sessionId, initialMessages]:
\* setMessages(initialMessages || []) in the mounted instance.
SyncMounted(wn, c, log) ==
    IF c = 0 THEN wn ELSE [wn EXCEPT ![c].messages = log]

\* What updateMessages calls of instance w lead to.  eag and def are the
\* messages the queued updaters build when the first one runs at call time,
\* resp. when all run in the next render.  A mounted instance renders them
\* all and hands each result to onMessagesChange.  An instance that was
\* unmounted by a session switch is never rendered again: React runs the
\* first updater at call time if the fiber has no pending lanes (the result
\* still goes to onMessagesChange), and never runs the queued ones.
Land(w, eag, def) ==
    IF def = <<>>
    THEN {[pushed |-> FALSE, app |-> <<>>, lanes |-> win[w].lanes, msgs |-> <<>>]}
    ELSE IF w = cur
    THEN {[pushed |-> TRUE, app |-> ApplyAll(win[w].messages, m), lanes |-> FALSE,
           msgs |-> m] : m \in {eag, def}}
    ELSE IF win[w].lanes
    THEN {[pushed |-> FALSE, app |-> <<>>, lanes |-> TRUE, msgs |-> <<>>]}
    ELSE {[pushed |-> TRUE, app |-> ReplaceLast(win[w].messages, eag[1]),
           lanes |-> TRUE, msgs |-> <<eag[1]>>],
          [pushed |-> FALSE, app |-> <<>>, lanes |-> TRUE, msgs |-> <<>>]}

\* An App without the persist effect on activeMessages.
AppForgets(o, wn) ==
    IF o.pushed
    THEN /\ activeMessages' = o.app
         /\ UNCHANGED lsMsgs
         /\ win' = SyncMounted(wn, cur, o.app)
    ELSE /\ UNCHANGED <<activeMessages, lsMsgs>>
         /\ win' = wn

\* App after the outcome o of Land: setActiveMessages(next), the persist
\* effect, and the mounted ChatWindow taking the new initialMessages.
AppTakes(o, wn) ==
    IF o.pushed
    THEN /\ activeMessages' = o.app
         /\ lsMsgs' = StorageStringify(o.app)
         /\ win' = SyncMounted(wn, cur, o.app)
    ELSE /\ UNCHANGED <<activeMessages, lsMsgs>>
         /\ win' = wn

\* A handleSend without the finally block.
SettleKeepsLoading(w, wn) ==
    IF w = cur THEN wn ELSE [wn EXCEPT ![w] = DeadWin]

\* handleSend of instance w has returned: the instance keeps its task
\* while it is mounted and is dropped once it is unmounted.
Settle(w, wn) ==
    IF w = cur
    THEN [wn EXCEPT ![w].loading = FALSE]
    ELSE [wn EXCEPT ![w] = DeadWin]

SettledTask(w, pc) ==
    IF w = cur THEN [IdleTask EXCEPT !.pc = pc] ELSE IdleTask

(***************************************************************************)
(* ChatWindow.handleSend, one action per synchronous segment.              *)
(***************************************************************************)
\* A guard that looks at the text only.
RefusesBlankOnly(w, t) == t = <<>>

\* Line 49 with text = input.trim(): if (!text || loading) return.
Refuses(w, t) == t = <<>> \/ win[w].loading

\* Lines 48-61: the guard, the user message, the placeholder, the request.
Send(text) ==
    /\ cur # 0
    /\ LET w == cur
           t == Trim(text)
       IN IF Refuses(w, t)
          THEN /\ io' = Note([IoNone EXCEPT !.send = "noop", !.text = text])
               /\ UNCHANGED <<activeId, activeMessages, lsId, lsMsgs, cur, win, task,
                              fetches, nSends, nSwitches, pending, nDeletes, sessions>>
          ELSE /\ nSends < MaxSends
               /\ LET log == (win[w].messages \o <<UserMsg(t)>>) \o <<botPlaceholder>> IN
                    /\ win' = [win EXCEPT ![w].messages = log, ![w].loading = TRUE]
                    /\ activeMessages' = log
                    /\ lsMsgs' = StorageStringify(log)
                    /\ task' = [task EXCEPT ![w] =
                                  [IdleTask EXCEPT !.pc = "awaitChat",
                                                   !.sessionId = win[w].sessionId,
                                                   !.base = win[w].messages,
                                                   !.text = t]]
               /\ nSends' = nSends + 1
               /\ io' = Note([IoNone EXCEPT !.send = "sent", !.text = text])
               /\ UNCHANGED <<activeId, lsId, cur, fetches, nSwitches, pending, nDeletes, sessions>>

\* Lines 107-120: the catch branch and finally.
Catch(w) ==
    \E o \in Land(w, <<ErrorMsg>>, <<ErrorMsg>>) :
        /\ AppTakes(o, Settle(w, [win EXCEPT ![w].lanes = o.lanes]))
        /\ task' = [task EXCEPT ![w] = SettledTask(w, "failed")]
        /\ io' = Note(IoNone)
        /\ UNCHANGED <<activeId, lsId, cur, fetches, nSends, nSwitches, pending, nDeletes, sessions>>

\* sendChat rejects: fetch fails or the status is not ok (api.js 59-67).
ChatReject(w) ==
    /\ task[w].pc = "awaitChat"
    /\ Catch(w)

\* sendChat resolves; lines 62-65 set up the reader and the accumulators.
ChatResolve(w, script) ==
    /\ task[w].pc = "awaitChat"
    /\ task' = [task EXCEPT ![w].pc = "reading", ![w].wire = Wire(script), ![w].off = 0,
                            ![w].botText = <<>>, ![w].sources = Null]
    /\ io' = Note(IoNone)
    /\ UNCHANGED <<activeId, activeMessages, lsId, lsMsgs, cur, win, fetches,
                   nSends, nSwitches, pending, nDeletes, sessions>>

\* Lines 69-101: reader.read() delivers the next k characters of the body;
\* the frame loop runs over the lines of that chunk alone.
Read(w, k) ==
    /\ task[w].pc = "reading"
    /\ k \in 1..(Len(task[w].wire) - task[w].off)
    /\ LET chunk == SubSeq(task[w].wire, task[w].off + 1, task[w].off + k)
           st == ProcessChunk(task[w].botText, task[w].sources, chunk)
       IN \E o \in Land(w, Emitted(st, TRUE), Emitted(st, FALSE)) :
            /\ AppTakes(o, [win EXCEPT ![w].lanes = o.lanes])
            /\ task' = [task EXCEPT ![w].off = task[w].off + k,
                                    ![w].botText = st.botText,
                                    ![w].sources = st.sources]
    /\ io' = Note(IoNone)
    /\ UNCHANGED <<activeId, lsId, cur, fetches, nSends, nSwitches, pending, nDeletes, sessions>>

\* Line 70 and 105, 118-119: the body ended; leave the loop, call
\* onSessionUpdated (refreshSessions), finally.
ReadEnd(w) ==
    /\ task[w].pc = "reading"
    /\ task[w].off = Len(task[w].wire)
    /\ win' = Settle(w, win)
    /\ task' = [task EXCEPT ![w] = SettledTask(w, "done")]
    /\ io' = Note([IoNone EXCEPT !.refresh = TRUE])
    /\ UNCHANGED <<activeId, activeMessages, lsId, lsMsgs, cur, fetches,
                   nSends, nSwitches, pending, nDeletes, sessions>>

\* reader.read() rejects (the connection broke): catch and finally.
ReadFail(w) ==
    /\ task[w].pc = "reading"
    /\ Catch(w)

(***************************************************************************)
(* App: session actions and history.                                       *)
(***************************************************************************)
FreeWin == CHOOSE w \in Wins : win[w].live = "none" /\ \A v \in Wins : win[v].live = "none" => w <= v

\* The render after activeId and activeMessages were set to sid and log:
\* ChatWindow is keyed by activeId, so a new id unmounts the instance and
\* mounts a fresh one; the same id keeps it and its effect takes log.
SwitchTo(sid, log) ==
    /\ activeId' = sid
    /\ activeMessages' = log
    /\ lsId' = sid
    /\ lsMsgs' = StorageStringify(log)
    /\ IF sid = activeId
       THEN /\ win' = SyncMounted(win, cur, log)
            /\ UNCHANGED <<cur, task>>
       ELSE LET nw == FreeWin
                old == IF cur = 0 THEN win
                       ELSE IF InFlight(cur)
                            THEN [win EXCEPT ![cur].live = "unmounted"]
                            ELSE [win EXCEPT ![cur] = DeadWin]
            IN /\ cur' = nw
               /\ win' = [old EXCEPT ![nw] = NewWin(sid, log)]
               /\ task' = IF cur = 0 \/ InFlight(cur) THEN task
                          ELSE [task EXCEPT ![cur] = IdleTask]

\* A handler that leaves the log as it is.
KeptLog == activeMessages

\* setActiveMessages([]) of handleSelectSession (App.jsx 82).
ClearedLog == <<>>

\* handleSelectSession up to its await (App.jsx 80-85).
SelectSession(sid) ==
    /\ nSwitches < MaxSwitches
    /\ nSwitches' = nSwitches + 1
    /\ SwitchTo(sid, ClearedLog)
    /\ fetches' = fetches \cup {[sid |-> sid, kind |-> "select"]}
    /\ io' = Note(IoNone)
    /\ UNCHANGED <<nSends, pending, nDeletes, sessions>>

\* handleNewSession up to its await (App.jsx 97-104).
NewSession(id) ==
    /\ nSwitches < MaxSwitches
    /\ nSwitches' = nSwitches + 1
    /\ SwitchTo(id, <<>>)
    /\ pending' = pending \cup {[op |-> "create", sid |-> id, seen |-> activeId,
                               n |-> nSwitches]}
    /\ io' = Note(IoNone)
    /\ UNCHANGED <<fetches, nSends, nDeletes, sessions>>

\* setActiveMessages(log) from a settled fetch, the persist effect and the
\* mounted ChatWindow taking the new initialMessages.
SetActiveMessages(log) ==
    /\ activeMessages' = log
    /\ lsMsgs' = StorageStringify(log)
    /\ win' = SyncMounted(win, cur, log)

\* fetchHistory resolved with h: App.jsx 49-58 (startup) and 85-91 (select).
HistoryOk(f, h) ==
    /\ f \in fetches
    /\ fetches' = fetches \ {f}
    /\ IF f.kind = "startup" /\ Len(h) = 0
       THEN UNCHANGED <<activeMessages, lsMsgs, win>>
       ELSE SetActiveMessages(MapHistory(h))
    /\ io' = Note([IoNone EXCEPT !.resp = Resp(f.kind, f.sid, TRUE, h)])
    /\ UNCHANGED <<activeId, lsId, cur, task, nSends, nSwitches, pending, nDeletes, sessions>>

\* fetchHistory rejected: App.jsx 59 (startup) and 92-94 (select).
HistoryFail(f) ==
    /\ f \in fetches
    /\ fetches' = fetches \ {f}
    /\ IF f.kind = "startup"
       THEN UNCHANGED <<activeMessages, lsMsgs, win>>
       ELSE SetActiveMessages(<<>>)
    /\ io' = Note([IoNone EXCEPT !.resp = Resp(f.kind, f.sid, FALSE, <<>>)])
    /\ UNCHANGED <<activeId, lsId, cur, task, nSends, nSwitches, pending, nDeletes, sessions>>

\* createSession settled (App.jsx 104-106): a failure is swallowed, then
\* refreshSessions is called in both cases.
CreateSettled(c, ok) ==
    /\ c \in pending
    /\ c.op = "create"
    /\ pending' = pending \ {c}
    /\ io' = Note([IoNone EXCEPT !.refresh = TRUE, !.resp = Resp("create", c.sid, ok, <<>>)])
    /\ UNCHANGED <<activeId, activeMessages, lsId, lsMsgs, cur, win, task, fetches,
                   nSends, nSwitches, nDeletes, sessions>>

CreateOk(c) == CreateSettled(c, TRUE)

\* A handler without the try/catch around createSession: the failure
\* rejects it before it calls refreshSessions.
CreateFailStops(c) ==
    /\ c \in pending
    /\ c.op = "create"
    /\ pending' = pending \ {c}
    /\ io' = Note([IoNone EXCEPT !.rejected = TRUE, !.resp = Resp("create", c.sid, FALSE, <<>>)])
    /\ UNCHANGED <<activeId, activeMessages, lsId, lsMsgs, cur, win, task, fetches,
                   nSends, nSwitches, nDeletes, sessions>>

CreateFail(c) == CreateSettled(c, FALSE)

\* handleDeleteSession up to its await (App.jsx 109-110): the request is
\* sent; the handler keeps the activeId of the render it was created in.
DeleteSession(sid) ==
    /\ nDeletes < MaxDeletes
    /\ nDeletes' = nDeletes + 1
    /\ pending' = pending \cup {[op |-> "delete", sid |-> sid, seen |-> activeId,
                               n |-> nDeletes]}
    /\ io' = Note(IoNone)
    /\ UNCHANGED <<activeId, activeMessages, lsId, lsMsgs, cur, win, task, fetches,
                   nSends, nSwitches, sessions>>

\* The render after setActiveId(null) and setActiveMessages([]): the chat
\* window is unmounted and the landing page is shown (App.jsx 112-115, 130).
CloseActive ==
    /\ activeId' = NoSession
    /\ activeMessages' = <<>>
    /\ lsId' = AbsentId
    /\ lsMsgs' = StorageStringify(<<>>)
    /\ cur' = 0
    /\ win' = IF cur = 0 THEN win
              ELSE IF InFlight(cur) THEN [win EXCEPT ![cur].live = "unmounted"]
              ELSE [win EXCEPT ![cur] = DeadWin]
    /\ task' = IF cur = 0 \/ InFlight(cur) THEN task
               ELSE [task EXCEPT ![cur] = IdleTask]

\* A handler that refreshes the sidebar only when it cleared the active
\* session.
DeleteOkQuiet(c) ==
    /\ c \in pending
    /\ c.op = "delete"
    /\ pending' = pending \ {c}
    /\ IF c.seen = c.sid
       THEN CloseActive
       ELSE UNCHANGED <<activeId, activeMessages, lsId, lsMsgs, cur, win, task>>
    /\ io' = Note([IoNone EXCEPT !.refresh = (c.seen = c.sid),
                                 !.resp = Resp("delete", c.sid, TRUE, <<>>)])
    /\ UNCHANGED <<fetches, nSends, nSwitches, nDeletes, sessions>>

\* deleteSession resolved (App.jsx 111-117): the local state is cleared if
\* the activeId the handler holds is the deleted id; refreshSessions.
DeleteOk(c) ==
    /\ c \in pending
    /\ c.op = "delete"
    /\ pending' = pending \ {c}
    /\ IF c.seen = c.sid
       THEN CloseActive
       ELSE UNCHANGED <<activeId, activeMessages, lsId, lsMsgs, cur, win, task>>
    /\ io' = Note([IoNone EXCEPT !.refresh = TRUE, !.resp = Resp("delete", c.sid, TRUE, <<>>)])
    /\ UNCHANGED <<fetches, nSends, nSwitches, nDeletes, sessions>>

\* A handler that clears the local state of the deleted session although
\* the backend refused the delete.
DeleteFailOpen(c) ==
    /\ c \in pending
    /\ c.op = "delete"
    /\ pending' = pending \ {c}
    /\ IF c.seen = c.sid
       THEN CloseActive
       ELSE UNCHANGED <<activeId, activeMessages, lsId, lsMsgs, cur, win, task>>
    /\ io' = Note([IoNone EXCEPT !.rejected = TRUE, !.resp = Resp("delete", c.sid, FALSE, <<>>)])
    /\ UNCHANGED <<fetches, nSends, nSwitches, nDeletes, sessions>>

\* deleteSession rejected (api.js 54, App.jsx 110): the await throws and
\* handleDeleteSession rejects with it.
DeleteFail(c) ==
    /\ c \in pending
    /\ c.op = "delete"
    /\ pending' = pending \ {c}
    /\ io' = Note([IoNone EXCEPT !.rejected = TRUE, !.resp = Resp("delete", c.sid, FALSE, <<>>)])
    /\ UNCHANGED <<activeId, activeMessages, lsId, lsMsgs, cur, win, task, fetches,
                   nSends, nSwitches, nDeletes, sessions>>

\* The page is reloaded: the handlers and requests of the old page are
\* gone and App starts again from what localStorage holds.
Reload ==
    LET saved == [id |-> lsId, msgs |-> lsMsgs]
        b == Boot(saved)
    IN /\ activeId' = b.activeId
       /\ activeMessages' = b.activeMessages
       /\ lsId' = b.lsId
       /\ lsMsgs' = b.lsMsgs
       /\ cur' = b.cur
       /\ win' = b.win
       /\ task' = b.task
       /\ fetches' = b.fetches
       /\ pending' = {}
       /\ sessions' = <<>>
       /\ io' = Note([IoNone EXCEPT !.loaded = saved])
       /\ UNCHANGED <<nSends, nSwitches, nDeletes>>

\* GET /sessions: the lists the backend can answer with.
SessionLists == {<<>>, <<"A", "B">>}

\* A sidebar that shows nothing after a failed refresh.
SessionsFailClears ==
    /\ sessions' = <<>>
    /\ io' = Note([IoNone EXCEPT !.resp = Resp("sessions", NoSession, FALSE, <<>>)])
    /\ UNCHANGED <<activeId, activeMessages, lsId, lsMsgs, cur, win, task, fetches,
                   nSends, nSwitches, pending, nDeletes>>

\* refreshSessions (App.jsx 63-70), called at mount, every 5 seconds and by
\* the handlers: fetchSessions resolved with list, setSessions(list).
SessionsOk(list) ==
    /\ sessions' = list
    /\ io' = Note([IoNone EXCEPT !.resp = Resp("sessions", NoSession, TRUE, list)])
    /\ UNCHANGED <<activeId, activeMessages, lsId, lsMsgs, cur, win, task, fetches,
                   nSends, nSwitches, pending, nDeletes>>

\* refreshSessions: fetchSessions rejected, the catch branch ignores it.
SessionsFail ==
    /\ io' = Note([IoNone EXCEPT !.resp = Resp("sessions", NoSession, FALSE, <<>>)])
    /\ UNCHANGED <<activeId, activeMessages, lsId, lsMsgs, cur, win, task, fetches,
                   nSends, nSwitches, pending, nDeletes, sessions>>

\* The chunk lengths of the controller specification: a read ends after
\* the blank line of a frame, so it delivers whole frames.
CtlCuts(w) ==
    {k \in 1..(Len(task[w].wire) - task[w].off) :
        LET e == task[w].off + k IN
            e > 1 /\ task[w].wire[e] = NL /\ task[w].wire[e - 1] = NL}

\* The chunk lengths of the stream specification: every length.
AllCuts(w) == 1..(Len(task[w].wire) - task[w].off)

Next ==
    \/ \E text \in Inputs : Send(text)
    \/ \E w \in Wins : ChatReject(w)
    \/ \E w \in Wins, sc \in CtlScripts : ChatResolve(w, sc)
    \/ \E w \in Wins : \E k \in CtlCuts(w) : Read(w, k)
    \/ \E w \in Wins : ReadEnd(w)
    \/ \E w \in Wins : ReadFail(w)
    \/ \E sid \in Sessions : SelectSession(sid)
    \/ \E id \in NewIds : NewSession(id)
    \/ \E f \in fetches, h \in Histories : HistoryOk(f, h)
    \/ \E f \in fetches : HistoryFail(f)
    \/ \E c \in pending : CreateOk(c)
    \/ \E c \in pending : CreateFail(c)

Spec == Init /\ [][Next]_vars

(***************************************************************************)
(* The session specification: the session actions of App (select, new,     *)
(* delete) and the responses of the backend to them, without sends.        *)
(***************************************************************************)
NextSession ==
    \/ \E sid \in Sessions : SelectSession(sid)
    \/ \E id \in NewIds : NewSession(id)
    \/ \E sid \in Sessions \cup NewIds : DeleteSession(sid)
    \/ \E f \in fetches, h \in Histories : HistoryOk(f, h)
    \/ \E f \in fetches : HistoryFail(f)
    \/ \E c \in pending : CreateOk(c)
    \/ \E c \in pending : CreateFail(c)
    \/ \E c \in pending : DeleteOk(c)
    \/ \E c \in pending : DeleteFail(c)
    \/ \E list \in SessionLists : SessionsOk(list)
    \/ SessionsFail
    \/ Reload

InitSession ==
    \E saved \in PersistedStates :
        /\ InitFrom(saved)
        /\ nSends = 0
        /\ nSwitches = 0
        /\ nDeletes = 0
        /\ io = [IoNone EXCEPT !.loaded = saved]

SessionSpec == InitSession /\ [][NextSession]_vars

(***************************************************************************)
(* The stream specification: one chat window on session A, one send, every *)
(* response body of StreamScripts, cut into reads at every position.       *)
(***************************************************************************)
InitStream ==
    \E log \in {<<>>, SavedLog} :
        /\ activeId = "A"
        /\ activeMessages = log
        /\ lsId = "A"
        /\ lsMsgs = StorageStringify(log)
        /\ cur = 1
        /\ win = [w \in Wins |-> IF w = 1 THEN NewWin("A", log) ELSE DeadWin]
        /\ task = [w \in Wins |-> IdleTask]
        /\ fetches = {}
        /\ nSends = MaxSends - 1
        /\ nSwitches = MaxSwitches
        /\ pending = {}
        /\ nDeletes = MaxDeletes
        /\ sessions = <<>>
        /\ io = IoNone

NextStream ==
    \/ \E text \in Inputs : Send(text)
    \/ \E w \in Wins : ChatReject(w)
    \/ \E w \in Wins, sc \in StreamScripts : ChatResolve(w, sc)
    \/ \E w \in Wins : \E k \in AllCuts(w) : Read(w, k)
    \/ \E w \in Wins : ReadEnd(w)
    \/ \E w \in Wins : ReadFail(w)

StreamSpec == InitStream /\ [][NextStream]_vars

(***************************************************************************)
(* The window specification: one chat window on session A and MaxSends     *)
(* sends, one after the other or attempted at once; reads deliver whole    *)
(* frames.                                                                 *)
(***************************************************************************)
InitWindow ==
    \E log \in {<<>>, SavedLog} :
        /\ activeId = "A"
        /\ activeMessages = log
        /\ lsId = "A"
        /\ lsMsgs = StorageStringify(log)
        /\ cur = 1
        /\ win = [w \in Wins |-> IF w = 1 THEN NewWin("A", log) ELSE DeadWin]
        /\ task = [w \in Wins |-> IdleTask]
        /\ fetches = {}
        /\ nSends = 0
        /\ nSwitches = MaxSwitches
        /\ pending = {}
        /\ nDeletes = MaxDeletes
        /\ sessions = <<>>
        /\ io = IoNone

NextWindow ==
    \/ \E text \in Inputs : Send(text)
    \/ \E w \in Wins : ChatReject(w)
    \/ \E w \in Wins, sc \in WinScripts : ChatResolve(w, sc)
    \/ \E w \in Wins : \E k \in CtlCuts(w) : Read(w, k)
    \/ \E w \in Wins : ReadEnd(w)
    \/ \E w \in Wins : ReadFail(w)
    \/ \E f \in fetches, h \in Histories : HistoryOk(f, h)
    \/ \E f \in fetches : HistoryFail(f)
    \/ \E list \in SessionLists : SessionsOk(list)
    \/ SessionsFail
    \/ Reload

WindowSpec == InitWindow /\ [][NextWindow]_vars

(***************************************************************************)
(* The drain specification: a chat window on session A, sends, one session *)
(* switch that can fall into a stream, and a transport that always answers *)
(* in the end: every request is resolved or rejected, and every response   *)
(* body ends or breaks after finitely many chunks.                         *)
(***************************************************************************)
InitDrain ==
    \E log \in {<<>>, SavedLog} :
        /\ activeId = "A"
        /\ activeMessages = log
        /\ lsId = "A"
        /\ lsMsgs = StorageStringify(log)
        /\ cur = 1
        /\ win = [w \in Wins |-> IF w = 1 THEN NewWin("A", log) ELSE DeadWin]
        /\ task = [w \in Wins |-> IdleTask]
        /\ fetches = {}
        /\ nSends = 0
        /\ nSwitches = MaxSwitches - 1
        /\ pending = {}
        /\ nDeletes = MaxDeletes
        /\ sessions = <<>>
        /\ io = IoOff

\* The await of sendChat in instance w is answered.
Answer(w) ==
    \/ ChatReject(w)
    \/ \E sc \in WinScripts : ChatResolve(w, sc)

\* The read loop of instance w is left: reader.read() reports done or rejects.
Finish(w) ==
    \/ ReadEnd(w)
    \/ ReadFail(w)

NextDrain ==
    \/ \E text \in Inputs : Send(text)
    \/ \E w \in Wins : Answer(w)
    \/ \E w \in Wins : \E k \in CtlCuts(w) : Read(w, k)
    \/ \E w \in Wins : Finish(w)
    \/ \E sid \in Sessions : SelectSession(sid)
    \/ \E f \in fetches, h \in Histories : HistoryOk(f, h)
    \/ \E f \in fetches : HistoryFail(f)

DrainSpec ==
    /\ InitDrain
    /\ [][NextDrain]_vars
    /\ \A w \in Wins : WF_vars(Answer(w))
    /\ \A w \in Wins : WF_vars(Finish(w))

(***************************************************************************)
(* Reference values, read off the response body's lines.                   *)
(***************************************************************************)
\* The response body instance w is reading.
ScriptOf(w) ==
    CHOOSE sc \in (StreamScripts \cup CtlScripts) \cup WinScripts : Wire(sc) = task[w].wire

IsTokenFrame(l) ==
    l.kind = "frame" /\ l.p.kind = "object" /\ ~l.p.done /\ l.p.token # Undefined

IsDoneFrame(l) == l.kind = "frame" /\ l.p.kind = "object" /\ l.p.done

\* The tokens of the well-formed token frames of a body, in order.
RECURSIVE ValidTokens(_)
ValidTokens(sc) ==
    IF sc = <<>> THEN <<>>
    ELSE (IF IsTokenFrame(Head(sc)) THEN Head(sc).p.token ELSE <<>>)
         \o ValidTokens(Tail(sc))

\* Token frames t1..tn followed by one done frame that carries sources.
WellFormed(sc) ==
    /\ sc # <<>>
    /\ IsDoneFrame(sc[Len(sc)])
    /\ sc[Len(sc)].p.token = Undefined
    /\ sc[Len(sc)].p.sources # Undefined
    /\ \A i \in 1..(Len(sc) - 1) : IsTokenFrame(sc[i])

\* The accumulators and the last update when every line of the body
\* arrives whole in a read of its own.
RECURSIVE FrameByFrame(_, _)
FrameByFrame(acc, sc) ==
    IF sc = <<>> THEN acc
    ELSE LET st == ProcessChunk(acc.botText, acc.sources,
                                LineText(Head(sc)) \o <<NL, NL>>)
             msgs == Emitted(st, TRUE)
         IN FrameByFrame([botText |-> st.botText, sources |-> st.sources,
                          last |-> IF msgs = <<>> THEN acc.last ELSE msgs[Len(msgs)]],
                         Tail(sc))

WholeFrames(sc) ==
    FrameByFrame([botText |-> <<>>, sources |-> Null, last |-> botPlaceholder], sc)

RECURSIVE IsSubseq(_, _)
IsSubseq(a, b) ==
    IF a = <<>> THEN TRUE
    ELSE IF b = <<>> THEN FALSE
    ELSE IF Head(a) = Head(b) THEN IsSubseq(Tail(a), Tail(b))
    ELSE IsSubseq(a, Tail(b))

Last(log) == log[Len(log)]
ButLast(log) == SubSeq(log, 1, Len(log) - 1)

\* Instance w has received the whole body and awaits the end of the stream.
BodyRead(w) == task[w].pc = "reading" /\ task[w].off = Len(task[w].wire)

Settled(w) == task[w].pc \in {"done", "failed"}

(***************************************************************************)
(* The claims.                                                             *)
(***************************************************************************)

\* C1 (StreamSpec): once handleSend has settled, whatever the transport
\* did (done frame, end without done frame, rejected request, failed
\* read), no message of the chat window's log has isTyping = true.
C1_NoStuckStreaming ==
    \A w \in Wins :
        (w = cur /\ Settled(w)) => NoTyping(win[w].messages)

\* C2 (Spec): a step of handleSend of an instance that a session switch
\* unmounted changes neither the log App holds for the now active session,
\* nor the log shown by the mounted chat window, nor the persisted
\* activeMessages.
C2_SessionIsolation ==
    [][\A w \in Wins :
          (win[w].live = "unmounted" /\ task'[w] # task[w])
          => /\ activeMessages' = activeMessages
             /\ lsMsgs' = lsMsgs
             /\ (cur # 0 => win'[cur].messages = win[cur].messages)]_vars

\* C3 (StreamSpec): however the body is cut into reads, once it is read
\* to its end the accumulated content, the sources and the last message
\* are those of the same body with every frame arriving whole in its own
\* read.
C3_FrameReassembly ==
    \A w \in Wins :
        (w = cur /\ BodyRead(w))
        => LET ref == WholeFrames(ScriptOf(w)) IN
             /\ task[w].botText = ref.botText
             /\ task[w].sources = ref.sources
             /\ win[w].messages # <<>>
             /\ Last(win[w].messages) = ref.last

\* C4 (StreamSpec): a send of text T on log L that receives token frames
\* t1..tn and then one done frame with sources S leaves the log
\* L, {user, trimmed T}, {assistant, t1..tn, S, isTyping false}.
C4_EndToEnd ==
    \A w \in Wins :
        (w = cur /\ BodyRead(w) /\ WellFormed(ScriptOf(w)))
        => LET sc == ScriptOf(w) IN
             win[w].messages =
                (task[w].base \o <<UserMsg(task[w].text)>>)
                \o <<BotMsg(ValidTokens(sc), sc[Len(sc)].p.sources, FALSE)>>

\* The token a call of the frame loop stands for (empty for a frame that
\* appends nothing).
TokenOf(c) == IF ~c.done /\ c.token # Undefined THEN c.token ELSE <<>>

\* Each update's content is the previous update's content extended by
\* exactly the token of its own frame.
Orderly(before, calls, msgs) ==
    \A i \in 1..Len(msgs) :
        msgs[i].content =
            (IF i = 1 THEN before ELSE msgs[i - 1].content) \o TokenOf(calls[i])

\* C5 (StreamSpec): in every read, the updates of the decoded frames come
\* in frame order and each has the content of the previous update extended
\* by exactly the token of the frame just decoded, whenever React runs the
\* first updater.
C5_MonotonicUpdates ==
    [][\A w \in Wins :
          (task[w].pc = "reading" /\ task'[w].pc = "reading"
             /\ task'[w].off > task[w].off)
          => LET chunk == SubSeq(task[w].wire, task[w].off + 1, task'[w].off)
                 st == ProcessChunk(task[w].botText, task[w].sources, chunk)
             IN \A eager \in BOOLEAN :
                    Orderly(task[w].botText, st.calls, Emitted(st, eager))]_vars

\* C6 (StreamSpec): once a read has applied a done frame, no later read
\* of the same stream changes the log again.
C6_TerminalFrame ==
    [][\A w \in Wins :
          (w = cur /\ task[w].pc = "reading" /\ task[w].sources # Null
             /\ task'[w].pc = "reading")
          => win'[w].messages = win[w].messages]_vars

\* C7 (StreamSpec): a malformed line adds nothing to the accumulated
\* content: at every moment the content consists of tokens of the
\* well-formed token frames of the body, in their order.
C7_MalformedTolerance ==
    \A w \in Wins :
        task[w].pc = "reading"
        => IsSubseq(task[w].botText, ValidTokens(ScriptOf(w)))

\* C8 (Spec): when the request or a read fails, the log of the chat window
\* ends with the user message of this send followed by the error message,
\* and loading is released.
C8_TransportFailure ==
    [][\A w \in Wins :
          (w = cur /\ InFlight(w) /\ task'[w].pc = "failed")
          => LET log == win'[w].messages IN
               /\ Len(log) >= 2
               /\ log[Len(log)] = ErrorMsg
               /\ log[Len(log) - 1] = UserMsg(task[w].text)
               /\ ~win'[w].loading]_vars

\* C9 (Spec): no session has two chat requests in flight at once.
C9_OneRequestPerSession ==
    \A w, v \in Wins :
        (InFlight(w) /\ InFlight(v) /\ task[w].sessionId = task[v].sessionId)
        => w = v

\* C10 (Spec): while a send of the mounted chat window is in flight, no
\* step of its stream and no completion of a history fetch changes the
\* length of its log or any element before the placeholder.
C10_OnlyPlaceholderChanges ==
    [][\A w \in Wins :
          (w = cur /\ cur' = w /\ InFlight(w) /\ task'[w].pc \in {"awaitChat", "reading"}
             /\ nSwitches' = nSwitches)
          => /\ Len(win'[w].messages) = Len(win[w].messages)
             /\ ButLast(win'[w].messages) = ButLast(win[w].messages)]_vars

\* C11 (WindowSpec): a call of handleSend with empty or whitespace-only
\* text, or while the chat window is loading, changes neither the log, nor
\* the persisted store, nor loading, and dispatches no request.
C11_NoOpSend ==
    [][(io'.send \in {"noop", "sent"} /\ cur # 0
          /\ (Trim(io'.text) = <<>> \/ win[cur].loading))
       => /\ io'.send = "noop"
          /\ UNCHANGED <<activeId, activeMessages, lsId, lsMsgs, cur, win, task,
                         fetches, nSends, pending>>]_vars

\* handleSend was called with non-blank text while a request of the chat
\* window was in flight, and did nothing.
C11_Witness ==
    /\ io.send = "noop"
    /\ Trim(io.text) # <<>>
    /\ cur # 0
    /\ win[cur].loading
    /\ InFlight(cur)

\* C12 (WindowSpec): the step in which a send that dispatched a request
\* completes, by the end of the stream or by a failure of the request or
\* of a read, calls refreshSessions.
C12_RefreshOnCompletion ==
    [][\A w \in Wins :
          (InFlight(w) /\ task'[w].pc \notin {"awaitChat", "reading"})
          => io'.refresh]_vars

\* C13 (SessionSpec): the step of selectSession(id) that makes id the
\* active session leaves the log empty: the one App holds, the one the chat
\* window of id shows and the persisted one, before any history arrives.
C13_SelectClearsFirst ==
    [][(nSwitches' = nSwitches + 1 /\ activeId' \in Sessions)
       => /\ activeMessages' = <<>>
          /\ lsMsgs' = StorageStringify(<<>>)
          /\ lsId' = activeId'
          /\ cur' # 0
          /\ win'[cur'].sessionId = activeId'
          /\ win'[cur'].messages = <<>>]_vars

\* selectSession(B) was called and its history has not arrived: B is
\* active and shown with an empty log.
C13_Witness ==
    /\ activeId = "B"
    /\ [sid |-> "B", kind |-> "select"] \in fetches
    /\ io.resp.kind = "none"
    /\ cur # 0
    /\ win[cur].sessionId = "B"
    /\ win[cur].messages = <<>>
    /\ activeMessages = <<>>

\* The history fetch of the last selectSession settles and no other fetch
\* is pending.
SelectSettles ==
    /\ io'.resp.kind = "select"
    /\ fetches = {[sid |-> activeId, kind |-> "select"]}
    /\ fetches' = {}
    /\ activeMessages = <<>>

\* C14 (SessionSpec): when the history fetch of a selectSession(id) with
\* nothing interleaved succeeds, the log is the fetched messages in order,
\* each with its role and content, sources null and isTyping false; when it
\* fails the log is empty and the handler does not reject; id stays active.
C14_SelectOutcome ==
    [][SelectSettles
       => LET h == io'.resp.h
              log == activeMessages'
          IN /\ activeId' = activeId
             /\ io'.resp.sid = activeId
             /\ ~io'.rejected
             /\ cur' # 0
             /\ win'[cur'].messages = log
             /\ lsMsgs' = StorageStringify(log)
             /\ IF io'.resp.ok
                THEN /\ Len(log) = Len(h)
                     /\ \A i \in 1..Len(h) :
                           log[i] = [role |-> h[i].role, content |-> h[i].content,
                                     sources |-> Null, isTyping |-> FALSE]
                ELSE log = <<>>]_vars

\* A selectSession got a history of two messages and shows it.
C14_Witness ==
    /\ io.resp.kind = "select"
    /\ io.resp.ok
    /\ Len(io.resp.h) = 2
    /\ io.resp.sid = activeId
    /\ fetches = {}
    /\ cur # 0
    /\ Len(win[cur].messages) = 2
    /\ win[cur].messages = activeMessages

\* C15 (SessionSpec): neither the call of deleteSession(id) nor the
\* failure of its backend request changes the active session, the log or
\* the two persisted keys, whether or not id is the active session, and the
\* failure rejects the handler's promise.
C15_DeleteFailsClosed ==
    [][(nDeletes' > nDeletes \/ (io'.resp.kind = "delete" /\ ~io'.resp.ok))
       => /\ UNCHANGED <<activeId, activeMessages, lsId, lsMsgs, cur, win>>
          /\ (io'.resp.kind = "delete" => io'.rejected)]_vars

\* The delete of the active session, whose log is not empty, has failed.
C15_Witness ==
    /\ io.resp.kind = "delete"
    /\ ~io.resp.ok
    /\ io.rejected
    /\ io.resp.sid = activeId
    /\ lsId = activeId
    /\ activeMessages # <<>>
    /\ lsMsgs = StorageStringify(activeMessages)

\* C16 (SessionSpec): when the backend delete of session S succeeds, the
\* active id, the log and the persisted keys are cleared if S is the active
\* session at that moment, and are left alone if another session (or none)
\* is active at that moment.
C16_DeleteClearsOwnState ==
    [][(io'.resp.kind = "delete" /\ io'.resp.ok)
       => IF activeId = io'.resp.sid
          THEN /\ activeId' = NoSession
               /\ activeMessages' = <<>>
               /\ lsId' = AbsentId
               /\ lsMsgs' = StorageStringify(<<>>)
               /\ cur' = 0
          ELSE UNCHANGED <<activeId, activeMessages, lsId, lsMsgs, cur, win>>]_vars

\* The local state a delete can clear.
local == <<activeId, activeMessages, lsId, lsMsgs, cur>>

\* C17 (SessionSpec): the call of deleteSession(id) sends the backend
\* request and touches no local state; a step that settles a delete
\* changes local state only if the backend reported success; and the step
\* after a successful delete calls refreshSessions, whether or not local
\* state was cleared.
C17_DeleteOrdering ==
    [][/\ (nDeletes' > nDeletes
            => /\ local' = local
               /\ \E c \in pending' : c.op = "delete" /\ c \notin pending)
       /\ ((io'.resp.kind = "delete" /\ local' # local) => io'.resp.ok)
       /\ ((io'.resp.kind = "delete" /\ io'.resp.ok) => io'.refresh)]_vars

\* A delete of session B succeeded while A was active: A is kept and the
\* sidebar is refreshed.
C17_Witness ==
    /\ io.resp.kind = "delete"
    /\ io.resp.ok
    /\ io.resp.sid = "B"
    /\ io.refresh
    /\ activeId = "A"
    /\ lsId = "A"

\* C18 (SessionSpec): the call of createSession makes the new id active
\* with an empty log in App, in the chat window and in the persisted keys
\* while its registration is still pending; when the registration settles,
\* also by a failure, the handler does not reject, the active session and
\* its state are untouched and refreshSessions is called.
C18_CreateSession ==
    [][/\ ((nSwitches' = nSwitches + 1 /\ activeId' \in NewIds)
            => /\ activeMessages' = <<>>
               /\ lsId' = activeId'
               /\ lsMsgs' = StorageStringify(<<>>)
               /\ cur' # 0
               /\ win'[cur'].sessionId = activeId'
               /\ win'[cur'].messages = <<>>
               /\ \E c \in pending' : c.op = "create" /\ c.sid = activeId' /\ c \notin pending)
       /\ (io'.resp.kind = "create"
            => /\ io'.refresh
               /\ ~io'.rejected
               /\ UNCHANGED <<activeId, activeMessages, lsId, lsMsgs, cur, win>>)]_vars

\* The registration of the new session failed: it is still the active
\* session and the sidebar is refreshed.
C18_Witness ==
    /\ io.resp.kind = "create"
    /\ ~io.resp.ok
    /\ io.refresh
    /\ activeId = io.resp.sid
    /\ lsId = activeId
    /\ cur # 0
    /\ win[cur].sessionId = activeId

\* C19 (SessionSpec): when the startup history fetch of the cached id
\* succeeds, the fetched history, empty or not, replaces the cached log in
\* App, in the chat window and in the persisted key; when it fails the
\* cached log is kept.
C19_StartupReconciliation ==
    [][(io'.resp.kind = "startup" /\ nSwitches = 0 /\ nDeletes = 0)
       => IF io'.resp.ok
          THEN /\ activeMessages' = MapHistory(io'.resp.h)
               /\ lsMsgs' = StorageStringify(activeMessages')
               /\ win'[cur'].messages = activeMessages'
          ELSE UNCHANGED <<activeMessages, lsMsgs, win>>]_vars

\* Only the last message of the log can have isTyping = true.
OnlyLastTyping(log) ==
    \A i \in 1..Len(log) : IsTyping(log[i]) => i = Len(log)

\* C20 (WindowSpec): in every reachable state at most one message of the
\* log has isTyping = true, and it is the last one: in the chat window, in
\* App and in the persisted log.
C20_AtMostOneStreaming ==
    /\ \A w \in Wins : win[w].live = "mounted" => OnlyLastTyping(win[w].messages)
    /\ OnlyLastTyping(activeMessages)
    /\ OnlyLastTyping(StorageParse(lsMsgs))

C22_RefreshFailureSilent ==
    [][(io'.resp.kind = "sessions" /\ ~io'.resp.ok)
       => /\ ~io'.rejected
          /\ UNCHANGED <<sessions, activeId, activeMessages, lsId, lsMsgs, cur, win,
                         task, fetches, pending>>]_vars

\* A refresh failed while a stream was being read: the list of the last
\* successful refresh is still shown and the read loop goes on.
C22_Witness ==
    /\ io.resp.kind = "sessions"
    /\ ~io.resp.ok
    /\ sessions # <<>>
    /\ cur # 0
    /\ task[cur].pc = "reading"
    /\ task[cur].off > 0
    /\ win[cur].loading

\* C23 (SessionSpec): the result of a history fetch for a session that is
\* not the active one when it settles is written neither into the log of
\* App or of the chat window nor into the persisted activeMessages.
C23_StaleFetchesNeverLand ==
    [][(io'.resp.kind \in {"select", "startup"} /\ io'.resp.sid # activeId)
       => UNCHANGED <<activeMessages, lsMsgs, win>>]_vars

\* C24 (WindowSpec): a message with isTyping = true is in the log of the
\* chat window only while a send of that window is in flight and loading
\* is true, also in the log restored by a page reload.
C24_StreamingFlagTransient ==
    \A w \in Wins :
        (win[w].live = "mounted" /\ ~NoTyping(win[w].messages))
        => (win[w].loading /\ InFlight(w))

\* C25 (Spec): in every state, with all scheduled updates and effects
\* applied, the log of the mounted chat window, App's activeMessages and
\* the persisted activeMessages are equal, the persisted activeSessionId
\* is the active id (absent when there is none), and the chat window is
\* the one of the active session; so every update of a stream of the
\* mounted window is in the persisted store.
C25_MirrorConsistency ==
    /\ lsMsgs = StorageStringify(activeMessages)
    /\ lsId = (IF activeId = NoSession THEN AbsentId ELSE activeId)
    /\ (cur = 0) = (activeId = NoSession)
    /\ (cur # 0
          => /\ win[cur].live = "mounted"
             /\ win[cur].sessionId = activeId
             /\ win[cur].messages = activeMessages)

\* A stream of the mounted chat window has delivered a token: the partial
\* message is shown and persisted.
C25_Witness ==
    /\ cur # 0
    /\ task[cur].pc = "reading"
    /\ task[cur].botText = <<"a">>
    /\ win[cur].messages # <<>>
    /\ Last(win[cur].messages) = BotMsg(<<"a">>, Null, TRUE)
    /\ lsMsgs = StorageStringify(win[cur].messages)

\* C26 (DrainSpec): every send that passed the guard settles in the end,
\* whatever frames it received and also when the session was switched
\* while it was in flight, and then loading is false in its chat window.
C26_SendSettles ==
    \A w \in Wins :
        InFlight(w) ~> (~InFlight(w) /\ ~win[w].loading)

\* The stream of a chat window that a session switch unmounted has been
\* read to the end of its body.
C26_Witness ==
    \E w \in Wins :
        /\ win[w].live = "unmounted"
        /\ BodyRead(w)
        /\ task[w].botText = <<"a">>

\* The body of instance w ends with its only done frame, and the read of
\* this step delivers the line of that frame whole.
ReadsDoneFrame(w) ==
    /\ w = cur
    /\ task[w].pc = "reading"
    /\ task'[w].pc = "reading"
    /\ LET sc == ScriptOf(w) IN
         /\ sc # <<>>
         /\ IsDoneFrame(Last(sc))
         /\ \A i \in 1..(Len(sc) - 1) : ~IsDoneFrame(sc[i])
         /\ task[w].off <= Len(Wire(ButLast(sc)))
         /\ task'[w].off >= Len(Wire(ButLast(sc))) + Len(LineText(Last(sc)))

\* C27 (StreamSpec): the read that delivers the done frame leaves a last
\* message with isTyping false whose sources are those of the frame, or
\* the empty list (not null) when the frame carries no sources field; when
\* that read delivers the done frame alone, a token the frame carries is
\* not appended to the content.
C27_DoneFrame ==
    [][\A w \in Wins :
          ReadsDoneFrame(w)
          => LET sc == ScriptOf(w)
                 p == Last(sc).p
                 S == IF p.sources = Undefined THEN <<>> ELSE p.sources
                 m == Last(win'[w].messages)
             IN /\ task'[w].sources = S
                /\ m.sources = S
                /\ m.sources # Null
                /\ ~m.isTyping
                /\ m.content = task'[w].botText
                /\ (task[w].off = Len(Wire(ButLast(sc)))
                      => task'[w].botText = task[w].botText)]_vars

\* A body that ends with a done frame without sources field was read to
\* its end: the last message has the received content and sources [].
C27_Witness ==
    /\ cur # 0
    /\ BodyRead(cur)
    /\ ScriptOf(cur) = <<TokA, Frame(NullP), Frame(DoneNoSourcesP)>>
    /\ Last(win[cur].messages) = BotMsg(<<"a">>, <<>>, FALSE)

====
